---- MODULE Spec2Model ----
(***************************************************************************)
(* Batch invoice pipeline of TERMINAL_NORTE: PDFProcessor.procesar_lote    *)
(* and procesar_archivo over the folder taxonomy kept by FileManager.      *)
(*                                                                         *)
(* A path is a folder, a stem and a numeric suffix n (n = 0: no suffix,    *)
(* n > 0: "<stem>_<n>").  A stem is a triple <<kind, x, y>>:               *)
(*   <<"orig", f, 0>>   the input document f                               *)
(*   <<"bak",  f, ts>>  the backup of f taken at second ts                 *)
(* Successive files are processed in successive seconds: the second of a   *)
(* call is its position in the batch.                                      *)
(*   <<"fac",  l, c>>   "<local> - <cliente>.pdf"                          *)
(*   <<"tmp",  ts, p>>  temp/proceso_<ts>/temp_pagina_<p>.pdf              *)
(*   <<"meta", l, c>>   "<local> - <cliente>_metadata.json"                *)
(* The content of a file is <<f, p>>: page p of document f, p = 0 being    *)
(* the whole document.                                                     *)
(***************************************************************************)
EXTENDS Integers, Sequences, FiniteSets, TLC

\* Bounds of the model.
MaxArchivos == 2
MaxPaginas == 2
\* How many operations of the run the environment may make fail (a locked
\* file, a directory that cannot be made, a page that cannot be split, ...).
MaxFallos == 1

\* How many rules a list of patterns has at most, and how many characters
\* follow the run of letters of a file name.
MaxReglas == 3
MaxCola == 3
\* How many pieces (texts and placeholders) a name template has at most.
MaxPlantilla == 3

\* FileManager.__init__: self.max_reintentos = config.get('max_reintentos', 3)
max_reintentos == 3
\* FileManager._generar_nombre_unico: if contador > 1000: raise ValueError
LimiteContador == 1000
\* FileManager.limpiar_nombre_archivo: if len(nombre) > 200: nombre = nombre[:200]
LongitudMaxima == 200

VARIABLES
    cfg,            \* crear_backup, validar_antes, guardar_metadata, eliminar_originales
    previos,        \* per folder, how many names stem, stem_1, ... pre-exist
    fs,             \* the files written or still to be read by the run
    carpetas_temp,  \* the temp/proceso_<ts> directories that exist
    entrada,        \* what the OS and the PDF library report about each input file
    fallos,         \* how many operations the environment has made fail
    pc,             \* position in procesar_lote / procesar_archivo
    pendientes,     \* archivos_pendientes of procesar_lote
    indice,         \* position of the for loop of procesar_lote
    resultados,     \* resultados of procesar_lote
    resumen,        \* the summary procesar_lote returns
    estadisticas,   \* PDFProcessor.estadisticas
    archivo,        \* filepath of the running procesar_archivo
    atributos,      \* entrada of that file
    resultado,      \* resultado of the running procesar_archivo
    num_pagina,     \* loop variable of the page loop
    carpeta_temp,   \* carpeta_temp of the running call (0: not created)
    paginas_log,    \* what each page of the running call was, and what I/O it met
    traza,          \* which steps of the running call failed, and how
    llamada         \* the last direct call of a function of a component, with its result

vars == <<cfg, previos, entrada, fs, carpetas_temp, fallos, pc, pendientes, indice,
          resultados, resumen, estadisticas, archivo, atributos, resultado,
          num_pagina, carpeta_temp, paginas_log, traza, llamada>>

Archivos == 1..MaxArchivos

\* FileManager.folders, plus the originales_procesados subfolder.
Carpetas == {"input", "output", "errors", "backup", "temp", "metadata",
             "procesados"}

\* The values a field extraction can yield: 0 is None / empty.
Clientes == {0, 1}
Locales == {0, 1}

Ruta(d, s, n) == [carpeta |-> d, stem |-> s, n |-> n]

StemOriginal(f) == <<"orig", f, 0>>

\* Path.exists()
Existe(f_s, pre, r) ==
    \/ r.n < pre[r.carpeta]
    \/ \E x \in f_s : x.carpeta = r.carpeta /\ x.stem = r.stem /\ x.n = r.n

Contenido(f_s, r) ==
    (CHOOSE x \in f_s : x.carpeta = r.carpeta /\ x.stem = r.stem /\ x.n = r.n).contenido

Entrada(r, c) == [carpeta |-> r.carpeta, stem |-> r.stem, n |-> r.n, contenido |-> c]

Quitar(f_s, r) ==
    {x \in f_s : ~(x.carpeta = r.carpeta /\ x.stem = r.stem /\ x.n = r.n)}

\* The while loop of _generar_nombre_unico: contador runs from 1 and stops at
\* the first free "<stem>_<contador>"; when none of 1..LimiteContador is free
\* the loop ends in ValueError, given here as 0.
BuscarLibre(f_s, pre, r) ==
    IF \A k \in 1..LimiteContador : Existe(f_s, pre, Ruta(r.carpeta, r.stem, k))
    THEN 0
    ELSE CHOOSE k \in 1..LimiteContador :
            /\ ~Existe(f_s, pre, Ruta(r.carpeta, r.stem, k))
            /\ \A j \in 1..(k - 1) : Existe(f_s, pre, Ruta(r.carpeta, r.stem, j))

\* Variant of GenerarNombreUnico: the name asked for is kept.
GenerarNombreRepetido(f_s, pre, r) == [error |-> FALSE, ruta |-> r]

\* FileManager._generar_nombre_unico: [error, ruta]
GenerarNombreUnico(f_s, pre, r) ==
    IF ~Existe(f_s, pre, r)
    THEN [error |-> FALSE, ruta |-> r]
    ELSE LET k == BuscarLibre(f_s, pre, r)
         IN  IF k = 0
             THEN [error |-> TRUE, ruta |-> r]
             ELSE [error |-> FALSE, ruta |-> Ruta(r.carpeta, r.stem, k)]

\* What one attempt of a move, copy or delete can meet.
Intentos == {"ok", "lock", "error"}

\* What the attempts of one operation meet. An attempt is made only after a
\* lock error: the entries after the first one that is not "lock" repeat it.
Secuencias(S) ==
    {q \in [1..max_reintentos -> S] :
        \A i \in 1..max_reintentos :
            q[i] # "lock" => \A j \in i..max_reintentos : q[j] = q[i]}
SecuenciasIO == Secuencias(Intentos)
TodoOk == [i \in 1..max_reintentos |-> "ok"]

\* Variant of Reintentar: every error is retried, and the wait follows every
\* failed attempt.
RECURSIVE ReintentarSiempre(_, _, _)
ReintentarSiempre(io, intento, esperas) ==
    IF intento >= max_reintentos
    THEN [ok |-> FALSE, intentos |-> intento, esperas |-> esperas]
    ELSE IF io[intento + 1] = "ok"
         THEN [ok |-> TRUE, intentos |-> intento + 1, esperas |-> esperas]
         ELSE ReintentarSiempre(io, intento + 1, esperas + 1)

\* for intento in range(self.max_reintentos): try ... except PermissionError
\* ... except Exception, on the outcomes each attempt meets:
\* [ok, intentos, esperas]
RECURSIVE Reintentar(_, _, _)
Reintentar(io, intento, esperas) ==
    IF intento >= max_reintentos
    THEN [ok |-> FALSE, intentos |-> intento, esperas |-> esperas]
    ELSE IF io[intento + 1] = "ok"
         THEN [ok |-> TRUE, intentos |-> intento + 1, esperas |-> esperas]
         ELSE IF io[intento + 1] = "lock"
              THEN IF intento < max_reintentos - 1
                   THEN Reintentar(io, intento + 1, esperas + 1)
                   ELSE [ok |-> FALSE, intentos |-> intento + 1, esperas |-> esperas]
              ELSE [ok |-> FALSE, intentos |-> intento + 1, esperas |-> esperas]

\* FileManager.mover_archivo(origen, destino), sobrescribir = False.
\* mkdir: whether destino.parent.mkdir succeeds; io: what the attempts meet.
\* res is "true", "false" or "raise" (an exception leaves the method).
MoverArchivo(f_s, pre, origen, destino, mkdir, io) ==
    IF ~Existe(f_s, pre, origen)
    THEN [res |-> "false", fs |-> f_s, destino |-> destino,
          intentos |-> 0, esperas |-> 0]
    ELSE IF ~mkdir
    THEN [res |-> "raise", fs |-> f_s, destino |-> destino,
          intentos |-> 0, esperas |-> 0]
    ELSE LET u == GenerarNombreUnico(f_s, pre, destino)
             t == Reintentar(io, 0, 0)
         IN  IF u.error
             THEN [res |-> "raise", fs |-> f_s, destino |-> destino,
                   intentos |-> 0, esperas |-> 0]
             ELSE IF t.ok
                  THEN [res |-> "true",
                        fs |-> Quitar(f_s, origen)
                               \cup {Entrada(u.ruta, Contenido(f_s, origen))},
                        destino |-> u.ruta,
                        intentos |-> t.intentos, esperas |-> t.esperas]
                  ELSE [res |-> "false", fs |-> f_s, destino |-> u.ruta,
                        intentos |-> t.intentos, esperas |-> t.esperas]

\* FileManager.copiar_archivo(origen, destino), sobrescribir = False.
CopiarArchivo(f_s, pre, origen, destino, mkdir, io) ==
    IF ~Existe(f_s, pre, origen)
    THEN [res |-> "false", fs |-> f_s, destino |-> destino,
          intentos |-> 0, esperas |-> 0]
    ELSE IF ~mkdir
    THEN [res |-> "raise", fs |-> f_s, destino |-> destino,
          intentos |-> 0, esperas |-> 0]
    ELSE LET u == GenerarNombreUnico(f_s, pre, destino)
             t == Reintentar(io, 0, 0)
         IN  IF u.error
             THEN [res |-> "raise", fs |-> f_s, destino |-> destino,
                   intentos |-> 0, esperas |-> 0]
             ELSE IF t.ok
                  THEN [res |-> "true",
                        fs |-> f_s \cup {Entrada(u.ruta, Contenido(f_s, origen))},
                        destino |-> u.ruta,
                        intentos |-> t.intentos, esperas |-> t.esperas]
                  ELSE [res |-> "false", fs |-> f_s, destino |-> u.ruta,
                        intentos |-> t.intentos, esperas |-> t.esperas]

\* FileManager.crear_backup(archivo) at second ts: res is "ruta" (the backup
\* path is returned), "none" or "raise".
CrearBackup(f_s, pre, origen, ts, mkdir, io) ==
    IF ~Existe(f_s, pre, origen)
    THEN [res |-> "none", fs |-> f_s]
    ELSE LET destino_backup == Ruta("backup", <<"bak", origen.stem[2], ts>>, 0)
             u == GenerarNombreUnico(f_s, pre, destino_backup)
         IN  IF u.error
             THEN [res |-> "raise", fs |-> f_s]
             ELSE LET c == CopiarArchivo(f_s, pre, origen, u.ruta, mkdir, io)
                  IN  IF c.res = "true" THEN [res |-> "ruta", fs |-> c.fs]
                      ELSE IF c.res = "raise" THEN [res |-> "raise", fs |-> f_s]
                      ELSE [res |-> "none", fs |-> f_s]

\* What one attempt of eliminar_archivo can meet: send2trash succeeds; it
\* raises ImportError and unlink succeeds; PermissionError; send2trash raises
\* another error because there is no trash to send the file to; another
\* error.
IntentosEliminar == {"papelera", "unlink", "lock", "sin_papelera", "error"}
SecuenciasEliminar == Secuencias(IntentosEliminar)

\* How the try of eliminar_archivo ends on each outcome: return True,
\* except PermissionError, except Exception.
IOEliminar(io) == [i \in 1..max_reintentos |->
                      IF io[i] \in {"papelera", "unlink"} THEN "ok"
                      ELSE IF io[i] = "lock" THEN "lock" ELSE "error"]

\* FileManager.eliminar_archivo(archivo), intentar_papelera = True:
\* [ok, fs, via] (via: "papelera" or "unlink", how the file went; the trash
\* is outside the folders of the system)
EliminarArchivo(f_s, pre, r, io) ==
    IF ~Existe(f_s, pre, r)
    THEN [ok |-> TRUE, fs |-> f_s, via |-> "no_existe"]
    ELSE LET t == Reintentar(IOEliminar(io), 0, 0)
         IN  IF ~t.ok
             THEN [ok |-> FALSE, fs |-> f_s, via |-> "fallo"]
             ELSE [ok |-> TRUE, fs |-> Quitar(f_s, r), via |-> io[t.intentos]]

\* Variant of ValidarArchivoPdf: the size of the file is not looked at.
ValidarSinTamano(existe, atr) ==
    IF ~existe
    THEN [es_valido |-> FALSE, errores |-> <<[tipo |-> "no_existe", pagina |-> 0]>>,
          advertencias |-> <<>>, historial |-> FALSE]
    ELSE IF ~atr.legible
    THEN [es_valido |-> FALSE, errores |-> <<[tipo |-> "pdf_corrupto", pagina |-> 0]>>,
          advertencias |-> <<>>, historial |-> FALSE]
    ELSE [es_valido |-> atr.paginas # 0,
          errores |-> IF atr.paginas = 0
                      THEN <<[tipo |-> "sin_paginas", pagina |-> 0]>> ELSE <<>>,
          advertencias |-> <<>>, historial |-> TRUE]

\* PDFValidator.validar_archivo_pdf, on what the OS and the PDF library
\* report about the file: [es_valido, errores, advertencias, historial]
\* (historial: whether the verdict was appended to validation_history).
Err(tipo, p) == [tipo |-> tipo, pagina |-> p]

ValidarArchivoPdf(existe, atr) ==
    IF ~existe
    THEN [es_valido |-> FALSE, errores |-> <<Err("no_existe", 0)>>,
          advertencias |-> <<>>, historial |-> FALSE]
    ELSE LET e_tam == IF atr.tam = "pequeno" THEN <<Err("muy_pequeno", 0)>>
                      ELSE IF atr.tam = "grande" THEN <<Err("muy_grande", 0)>>
                      ELSE IF atr.tam = "error_stat" THEN <<Err("error_tamano", 0)>>
                      ELSE <<>>
             v_tam == atr.tam \notin {"pequeno", "grande"}
         IN  IF ~atr.legible
             THEN [es_valido |-> FALSE,
                   errores |-> Append(e_tam, Err("pdf_corrupto", 0)),
                   advertencias |-> <<>>, historial |-> FALSE]
             ELSE IF atr.paginas = 0
                  THEN [es_valido |-> FALSE,
                        errores |-> Append(e_tam, Err("sin_paginas", 0)),
                        advertencias |-> <<Err("sin_texto_extraible", 0)>>,
                        historial |-> TRUE]
                  ELSE [es_valido |-> v_tam, errores |-> e_tam,
                        advertencias |-> <<>>, historial |-> TRUE]

\* Variant of EsValido: one of the two fields is enough.
EsValidoConUno(cliente, local) == cliente # 0 \/ local # 0

\* DatosFactura.es_valido: bool(self.cliente and self.local)
EsValido(cliente, local) == cliente # 0 /\ local # 0

\* Variant of PaginaOmitida: no page is skipped for its record.
PaginaNuncaOmitida(d) == FALSE

\* Whether procesar_archivo skips the page of record d: validar_extraccion
\* is called and kept for the sidecar, the page is skipped on es_valido()
PaginaOmitida(d) == ~EsValido(d.cliente, d.local)

\* resultado = {...} at the head of procesar_archivo
ResultadoInicial(f) ==
    [archivo |-> f, exitoso |-> FALSE, paginas_procesadas |-> 0,
     archivos_generados |-> <<>>, errores |-> <<>>, advertencias |-> <<>>,
     metadata |-> {}]

\* except Exception as e: of procesar_archivo
ErrorGeneral(res) ==
    [res EXCEPT !.errores = Append(@, Err("error_general", 0)),
                !.exitoso = FALSE]

TrazaInicial ==
    [rechazado |-> FALSE, backup |-> "no", excepcion |-> "no",
     rmtree |-> "no", eliminar |-> "no", mover_original |-> "no"]

SinAtributos == [tam |-> "ok", legible |-> FALSE, paginas |-> 0]

RutaOriginal(f) == Ruta("input", StemOriginal(f), 0)

\* The sizes a file can have for the validator, and the files there can be.
Tamanos == {"ok", "pequeno", "grande", "error_stat"}
Atributos(tams, paginas) ==
    {a \in [tam : tams, legible : BOOLEAN, paginas : paginas] :
        ~a.legible => a.paginas = 0}

\* No component function has been called directly.
SinLlamada == [fn |-> "ninguna"]

\* The state after PDFProcessor.__init__, over configs, folders and inputs.
Inicio(configs, n_archivos, atrs, fallos0) ==
    /\ \E ce \in configs : cfg = ce[1] /\ previos = ce[2]
    /\ \E k \in 0..n_archivos :
          /\ entrada \in [1..k -> atrs]
          /\ fs = {Entrada(RutaOriginal(f), <<f, 0>>) : f \in 1..k}
    /\ carpetas_temp = {}
    /\ fallos = fallos0
    /\ pc = "lote_inicio"
    /\ pendientes = <<>>
    /\ indice = 1
    /\ resultados = <<>>
    /\ resumen = [estado |-> "ninguno"]
    /\ estadisticas = [archivos_procesados |-> 0, paginas_procesadas |-> 0,
                       archivos_exitosos |-> 0, archivos_con_error |-> 0,
                       errores |-> <<>>]
    /\ archivo = 0
    /\ atributos = SinAtributos
    /\ resultado = ResultadoInicial(0)
    /\ num_pagina = 0
    /\ carpeta_temp = 0
    /\ paginas_log = <<>>
    /\ traza = TrazaInicial
    /\ llamada = SinLlamada

Configs == [crear_backup : BOOLEAN, validar_antes : BOOLEAN,
            guardar_metadata : BOOLEAN, eliminar_originales : BOOLEAN]

ConfigDefecto == [crear_backup |-> TRUE, validar_antes |-> TRUE,
                  guardar_metadata |-> TRUE, eliminar_originales |-> TRUE]

Vacias == [c \in Carpetas |-> 0]

\* One of the folders holds, for every name written to it, the name alone or
\* the name and all its suffixed variants.
Ocupadas ==
    {[c \in Carpetas |-> IF c = d THEN n ELSE 0] :
        d \in {"output", "errors", "backup", "procesados"},
        n \in {1, LimiteContador + 1}}

\* One pending file at most, of any kind: under any configuration with the
\* folders empty, and under the default configuration with a folder occupied.
\* Up to MaxFallos operations fail.
Init ==
    Inicio({<<c, Vacias>> : c \in Configs} \cup {<<ConfigDefecto, e>> : e \in Ocupadas},
           1, Atributos(Tamanos, 0..MaxPaginas), 0)

\* A batch: up to MaxArchivos pending files of at most one page, of a size
\* within the bounds, under the default configuration with the folders
\* empty. At most one operation fails.
InitLote ==
    Inicio({<<ConfigDefecto, Vacias>>}, MaxArchivos, Atributos({"ok"}, 0..1),
           MaxFallos - 1)

\* The order in which glob lists the files: the files being alike up to
\* their attributes, which range over every assignment, the sorted order
\* stands for all.
Listado(S) ==
    CHOOSE q \in [1..Cardinality(S) -> S] :
        \A i, j \in 1..Cardinality(S) : i < j => q[i] < q[j]

EnEntrada == {x.stem[2] : x \in {y \in fs : y.carpeta = "input"}}

RECURSIVE Suma(_)
Suma(q) == IF q = <<>> THEN 0 ELSE Head(q) + Suma(Tail(q))

RECURSIVE Aplanar(_)
Aplanar(q) == IF q = <<>> THEN <<>> ELSE Head(q) \o Aplanar(Tail(q))

\* PDFProcessor.generar_resumen_procesamiento
GenerarResumen(rs) ==
    [estado |-> "resumen",
     total_archivos |-> Len(rs),
     archivos_exitosos |-> Suma([i \in 1..Len(rs) |-> IF rs[i].exitoso THEN 1 ELSE 0]),
     archivos_con_error |-> Suma([i \in 1..Len(rs) |-> IF ~rs[i].exitoso THEN 1 ELSE 0]),
     total_paginas_procesadas |-> Suma([i \in 1..Len(rs) |-> rs[i].paginas_procesadas]),
     total_archivos_generados |-> Suma([i \in 1..Len(rs) |-> Len(rs[i].archivos_generados)]),
     errores_encontrados |-> Aplanar([i \in 1..Len(rs) |-> rs[i].errores])]

vars_archivo == <<archivo, atributos, resultado, num_pagina, carpeta_temp,
                  paginas_log, traza>>
vars_lote == <<pendientes, indice, resultados, resumen>>

\* procesar_lote, up to the for loop: list the pending files
ListarPendientes ==
    /\ pc = "lote_inicio"
    /\ pendientes' = Listado(EnEntrada)
    /\ IF EnEntrada = {}
       THEN /\ resumen' = [estado |-> "sin_pendientes"]
            /\ pc' = "lote_fin"
       ELSE /\ resumen' = resumen
            /\ pc' = "lote_bucle"
    /\ UNCHANGED <<cfg, llamada, previos, entrada, fs, carpetas_temp, fallos, indice,
                   resultados, estadisticas, vars_archivo>>

\* for archivo in archivos_iter: resultado = self.procesar_archivo(str(archivo)),
\* up to the try of procesar_archivo
IniciarArchivo ==
    /\ pc = "lote_bucle"
    /\ indice <= Len(pendientes)
    /\ archivo' = pendientes[indice]
    /\ resultado' = ResultadoInicial(pendientes[indice])
    /\ atributos' = entrada[pendientes[indice]]
    /\ num_pagina' = 0
    /\ carpeta_temp' = 0
    /\ paginas_log' = <<>>
    /\ traza' = TrazaInicial
    /\ pc' = "validar"
    /\ UNCHANGED <<cfg, llamada, previos, entrada, fs, carpetas_temp, fallos, vars_lote,
                   estadisticas>>

Presupuesto == MaxFallos - fallos
Malo(io) == io[1] \notin {"ok", "papelera", "unlink"}
C(b) == IF b THEN 1 ELSE 0

\* 1. Validar archivo antes de procesar
Validar ==
    /\ pc = "validar"
    /\ LET v == ValidarArchivoPdf(Existe(fs, previos, RutaOriginal(archivo)), atributos)
       IN  IF cfg.validar_antes /\ ~v.es_valido
           THEN \E mkdir \in BOOLEAN, io \in SecuenciasIO :
                   LET m == MoverArchivo(fs, previos, RutaOriginal(archivo),
                                         Ruta("errors", StemOriginal(archivo), 0),
                                         mkdir, io)
                       r == [resultado EXCEPT !.errores = v.errores,
                                              !.advertencias = v.advertencias]
                   IN  /\ ~mkdir => io = TodoOk
                       /\ C(~mkdir) + C(Malo(io)) <= Presupuesto
                       /\ fallos' = fallos + C(~mkdir) + C(Malo(io))
                       /\ fs' = m.fs
                       /\ resultado' = IF m.res = "raise" THEN ErrorGeneral(r) ELSE r
                       /\ traza' = [traza EXCEPT
                                      !.rechazado = TRUE,
                                      !.mover_original = m.res,
                                      !.excepcion = IF m.res = "raise"
                                                    THEN "validar" ELSE "no"]
                       /\ pc' = "finally"
           ELSE /\ resultado' = IF cfg.validar_antes
                                THEN [resultado EXCEPT !.metadata = @ \cup {"validacion"}]
                                ELSE resultado
                /\ pc' = "backup"
                /\ UNCHANGED <<fs, traza, fallos>>
    /\ UNCHANGED <<cfg, llamada, previos, entrada, carpetas_temp, vars_lote, estadisticas,
                   archivo, atributos, num_pagina, carpeta_temp, paginas_log>>

\* 2. Crear backup si está configurado
Backup ==
    /\ pc = "backup"
    /\ IF cfg.crear_backup
       THEN \E mkdir \in BOOLEAN, io \in SecuenciasIO :
               LET b == CrearBackup(fs, previos, RutaOriginal(archivo), indice, mkdir, io)
               IN  /\ ~mkdir => io = TodoOk
                   /\ C(~mkdir) + C(Malo(io)) <= Presupuesto
                   /\ fallos' = fallos + C(~mkdir) + C(Malo(io))
                   /\ fs' = b.fs
                   /\ traza' = [traza EXCEPT
                                  !.backup = b.res,
                                  !.excepcion = IF b.res = "raise" THEN "backup" ELSE "no"]
                   /\ resultado' =
                        IF b.res = "ruta"
                        THEN [resultado EXCEPT !.metadata = @ \cup {"backup"}]
                        ELSE IF b.res = "none"
                        THEN [resultado EXCEPT
                                !.advertencias = Append(@, Err("sin_backup", 0))]
                        ELSE ErrorGeneral(resultado)
                   /\ pc' = IF b.res = "raise" THEN "finally" ELSE "analizar"
       ELSE /\ pc' = "analizar"
            /\ UNCHANGED <<fs, traza, resultado, fallos>>
    /\ UNCHANGED <<cfg, llamada, previos, entrada, carpetas_temp, vars_lote, estadisticas,
                   archivo, atributos, num_pagina, carpeta_temp, paginas_log>>

\* PDFAnalyzer._initialize: open, PdfReader, stat
AbrePDF(existe, atr) == existe /\ atr.legible /\ atr.tam # "error_stat"

\* 3. Analizar el PDF, and the creation of carpeta_temp
Analizar ==
    /\ pc = "analizar"
    /\ IF ~AbrePDF(Existe(fs, previos, RutaOriginal(archivo)), atributos)
       THEN /\ resultado' = ErrorGeneral(resultado)
            /\ traza' = [traza EXCEPT !.excepcion = "analizar"]
            /\ pc' = "finally"
            /\ UNCHANGED <<carpetas_temp, carpeta_temp, fallos>>
       ELSE \E mkdir \in BOOLEAN :
               /\ C(~mkdir) <= Presupuesto
               /\ fallos' = fallos + C(~mkdir)
               /\ IF mkdir
                  THEN /\ carpetas_temp' = carpetas_temp \cup {indice}
                       /\ carpeta_temp' = indice
                       /\ resultado' = [resultado EXCEPT !.metadata = @ \cup {"pdf_info"}]
                       /\ traza' = traza
                       /\ pc' = "paginas"
                  ELSE /\ resultado' = ErrorGeneral(
                              [resultado EXCEPT !.metadata = @ \cup {"pdf_info"}])
                       /\ traza' = [traza EXCEPT !.excepcion = "mkdir_temp"]
                       /\ pc' = "finally"
                       /\ UNCHANGED <<carpetas_temp, carpeta_temp>>
    /\ num_pagina' = 0
    /\ UNCHANGED <<cfg, llamada, previos, entrada, fs, vars_lote, estadisticas, archivo,
                   atributos, paginas_log>>

RutaTemp(ts, p) == Ruta("temp", <<"tmp", ts, p>>, 0)

\* FileManager.guardar_metadata(nombre_archivo, metadata): the sidecar is
\* opened 'w' under the stem of the generated name
GuardarMetadata(f_s, local, cliente, c, ok) ==
    LET r == Ruta("metadata", <<"meta", local, cliente>>, 0)
    IN  IF ok THEN Quitar(f_s, r) \cup {Entrada(r, c)} ELSE f_s

\* One iteration of: for num_pagina in range(total_paginas)
\* texto: extract_page_text yields text; cliente, local: what the extractor
\* finds; split: split_page succeeds; mkdir, io: what mover_archivo meets;
\* meta: the sidecar can be written.
PasoPagina(texto, cliente, local, split, mkdir, io, meta) ==
    LET p == num_pagina + 1
        temp == RutaTemp(carpeta_temp, num_pagina)
        fs_split == Quitar(fs, temp) \cup {Entrada(temp, <<archivo, p>>)}
        carpeta_destino == IF EsValido(cliente, local) THEN "output" ELSE "errors"
        archivo_final == Ruta(carpeta_destino, <<"fac", local, cliente>>, 0)
        m == MoverArchivo(fs_split, previos, temp, archivo_final, mkdir, io)
        reg(s, mv, d) == [texto |-> texto, cliente |-> cliente, local |-> local,
                          split |-> s, mover |-> mv, destino |-> d]
    IN  IF ~texto
        THEN /\ resultado' = [resultado EXCEPT
                                !.advertencias = Append(@, Err("sin_texto", p))]
             /\ paginas_log' = Append(paginas_log, reg("no", "no", 0))
             /\ fs' = fs
        ELSE IF PaginaOmitida([cliente |-> cliente, local |-> local])
        THEN /\ resultado' = [resultado EXCEPT
                                !.errores = Append(@, Err("pagina", p))]
             /\ paginas_log' = Append(paginas_log, reg("no", "no", 0))
             /\ fs' = fs
        ELSE IF ~split
        THEN /\ resultado' = [resultado EXCEPT
                                !.errores = Append(@, Err("dividir", p))]
             /\ paginas_log' = Append(paginas_log, reg("false", "no", 0))
             /\ fs' = fs
        ELSE IF m.res = "true"
        THEN /\ resultado' = [resultado EXCEPT
                                !.archivos_generados = Append(@, archivo_final),
                                !.paginas_procesadas = @ + 1]
             /\ paginas_log' = Append(paginas_log, reg("true", "true", m.destino.n))
             /\ fs' = IF cfg.guardar_metadata
                      THEN GuardarMetadata(m.fs, local, cliente, <<archivo, p>>, meta)
                      ELSE m.fs
        ELSE IF m.res = "false"
        THEN /\ resultado' = [resultado EXCEPT
                                !.errores = Append(@, Err("mover", p))]
             /\ paginas_log' = Append(paginas_log, reg("true", "false", 0))
             /\ fs' = m.fs
        ELSE /\ resultado' = [resultado EXCEPT
                                !.errores = Append(@, Err("pagina_excepcion", p))]
             /\ paginas_log' = Append(paginas_log, reg("true", "raise", 0))
             /\ fs' = m.fs

\* Variant of SiguientePagina: a page that is skipped or fails ends the loop
\* ("break" in the place of "continue").
SiguientePaginaBreak(p, fallo) == IF fallo THEN p + MaxPaginas + 1 ELSE p + 1

\* Where the page loop goes after iteration p: "continue" after a page that
\* was skipped or failed, the end of the body otherwise; both lead to the
\* next page.
SiguientePagina(p, fallo) == p + 1

\* 4. Procesar cada página
Pagina ==
    /\ pc = "paginas"
    /\ num_pagina < atributos.paginas
    /\ \E texto \in BOOLEAN, cliente \in Clientes, local \in Locales,
          split \in BOOLEAN, mkdir \in BOOLEAN, io \in SecuenciasIO, meta \in BOOLEAN :
          /\ ~texto => cliente = 0 /\ local = 0
          /\ ~(texto /\ EsValido(cliente, local)) => split
          /\ ~split => mkdir
          /\ ~mkdir => io = TodoOk
          /\ (Malo(io) \/ ~cfg.guardar_metadata) => meta
          /\ C(~split) + C(~mkdir) + C(Malo(io)) + C(~meta) <= Presupuesto
          /\ fallos' = fallos + C(~split) + C(~mkdir) + C(Malo(io)) + C(~meta)
          /\ PasoPagina(texto, cliente, local, split, mkdir, io, meta)
    /\ num_pagina' = SiguientePagina(num_pagina,
                        resultado'.paginas_procesadas = resultado.paginas_procesadas)
    /\ UNCHANGED <<cfg, llamada, previos, entrada, carpetas_temp, pc, vars_lote, estadisticas,
                   archivo, atributos, carpeta_temp, traza>>

\* Variant of RmtreeCarpetas: the directory is left in place.
RmtreeCarpetasNada(dirs, d) == dirs

\* shutil.rmtree(carpeta_temp), when it succeeds: the directories and the
\* files left
RmtreeCarpetas(dirs, d) == dirs \ {d}
RmtreeArchivos(f_s, d) == {x \in f_s : ~(x.carpeta = "temp" /\ x.stem[2] = d)}

\* 5. Limpiar temporales: shutil.rmtree(carpeta_temp) inside try/except
Limpiar ==
    /\ pc = "paginas"
    /\ num_pagina >= atributos.paginas
    /\ \E ok \in BOOLEAN :
          /\ C(~ok) <= Presupuesto
          /\ fallos' = fallos + C(~ok)
          /\ IF ok
             THEN /\ carpetas_temp' = RmtreeCarpetas(carpetas_temp, carpeta_temp)
                  /\ fs' = RmtreeArchivos(fs, carpeta_temp)
                  /\ traza' = [traza EXCEPT !.rmtree = "ok"]
             ELSE /\ traza' = [traza EXCEPT !.rmtree = "fallo"]
                  /\ UNCHANGED <<carpetas_temp, fs>>
    /\ pc' = "disponer"
    /\ UNCHANGED <<cfg, llamada, previos, entrada, vars_lote, estadisticas, archivo, atributos,
                   resultado, num_pagina, carpeta_temp, paginas_log>>

TodoPapelera == [i \in 1..max_reintentos |-> "papelera"]

\* 6. Eliminar o mover archivo original
\* io_e: what eliminar_archivo meets; mkdir: carpeta_procesados.mkdir and the
\* mkdir of mover_archivo succeed; io: what mover_archivo meets.
Disponer ==
    /\ pc = "disponer"
    /\ \E io_e \in SecuenciasEliminar, mkdir \in BOOLEAN, io \in SecuenciasIO :
          LET origen == RutaOriginal(archivo)
              elimina == resultado.paginas_procesadas > 0 /\ cfg.eliminar_originales
              e == EliminarArchivo(fs, previos, origen, io_e)
              a_procesados == MoverArchivo(fs, previos, origen,
                                  Ruta("procesados", StemOriginal(archivo), 0), mkdir, io)
              a_errores == MoverArchivo(fs, previos, origen,
                                  Ruta("errors", StemOriginal(archivo), 0), mkdir, io)
              exito == [resultado EXCEPT !.exitoso = TRUE]
          IN  /\ ~elimina => io_e = TodoPapelera
              /\ (elimina /\ e.ok) => mkdir
              /\ ~mkdir => io = TodoOk
              /\ C(Malo(io_e)) + C(~mkdir) + C(Malo(io)) <= Presupuesto
              /\ fallos' = fallos + C(Malo(io_e)) + C(~mkdir) + C(Malo(io))
              /\ IF resultado.paginas_procesadas > 0
                 THEN IF cfg.eliminar_originales /\ e.ok
                      THEN /\ io = TodoOk
                           /\ fs' = e.fs
                           /\ resultado' = exito
                           /\ traza' = [traza EXCEPT !.eliminar = e.via]
                      ELSE /\ fs' = a_procesados.fs
                           /\ resultado' =
                                IF a_procesados.res = "raise"
                                THEN ErrorGeneral(exito)
                                ELSE [exito EXCEPT !.metadata = @ \cup
                                        {IF cfg.eliminar_originales
                                         THEN "archivo_original_movido"
                                         ELSE "archivo_original"}]
                           /\ traza' = [traza EXCEPT
                                          !.eliminar = IF cfg.eliminar_originales
                                                       THEN "fallo" ELSE "no",
                                          !.mover_original = a_procesados.res,
                                          !.excepcion = IF a_procesados.res = "raise"
                                                        THEN "disponer" ELSE "no"]
                 ELSE /\ fs' = a_errores.fs
                      /\ resultado' =
                           IF a_errores.res = "raise"
                           THEN ErrorGeneral(resultado)
                           ELSE [resultado EXCEPT !.metadata = @ \cup {"movido_a_errores"}]
                      /\ traza' = [traza EXCEPT
                                     !.mover_original = a_errores.res,
                                     !.excepcion = IF a_errores.res = "raise"
                                                   THEN "disponer" ELSE "no"]
    /\ pc' = "finally"
    /\ UNCHANGED <<cfg, llamada, previos, entrada, carpetas_temp, vars_lote, estadisticas,
                   archivo, atributos, num_pagina, carpeta_temp, paginas_log>>

\* Variant of ActualizarEstadisticas: a failed file is not counted as
\* processed.
ActualizarSoloExitosos(est, res) ==
    [est EXCEPT
       !.archivos_procesados = IF res.exitoso THEN @ + 1 ELSE @,
       !.paginas_procesadas = @ + res.paginas_procesadas,
       !.archivos_exitosos = IF res.exitoso THEN @ + 1 ELSE @,
       !.archivos_con_error = IF res.exitoso THEN @ ELSE @ + 1,
       !.errores = IF res.exitoso THEN @ ELSE @ \o res.errores]

\* Variant of ActualizarEstadisticas: every file is counted as successful,
\* a failed one as failed too.
ActualizarDobleConteo(est, res) ==
    [est EXCEPT
       !.archivos_procesados = @ + 1,
       !.paginas_procesadas = @ + res.paginas_procesadas,
       !.archivos_exitosos = @ + 1,
       !.archivos_con_error = IF res.exitoso THEN @ ELSE @ + 1,
       !.errores = IF res.exitoso THEN @ ELSE @ \o res.errores]

\* finally: Actualizar estadísticas
ActualizarEstadisticas(est, res) ==
    [est EXCEPT
       !.archivos_procesados = @ + 1,
       !.paginas_procesadas = @ + res.paginas_procesadas,
       !.archivos_exitosos = IF res.exitoso THEN @ + 1 ELSE @,
       !.archivos_con_error = IF res.exitoso THEN @ ELSE @ + 1,
       !.errores = IF res.exitoso THEN @ ELSE @ \o res.errores]

\* The finally block of procesar_archivo, then return resultado
Finally ==
    /\ pc = "finally"
    /\ estadisticas' = ActualizarEstadisticas(estadisticas, resultado)
    /\ pc' = "retorno"
    /\ UNCHANGED <<cfg, llamada, previos, entrada, fs, carpetas_temp, fallos, vars_lote,
                   vars_archivo>>

\* Variant of SiguienteArchivo: a file that fails ends the batch.
SiguienteArchivoCorta(i, res) == IF res.exitoso THEN i + 1 ELSE i + MaxArchivos + 1

\* The index of the file procesar_lote takes after the one at i.
SiguienteArchivo(i, res) == i + 1

\* resultados.append(resultado), and the next iteration of the for loop
Retorno ==
    /\ pc = "retorno"
    /\ resultados' = Append(resultados, resultado)
    /\ indice' = SiguienteArchivo(indice, resultado)
    /\ pc' = "lote_bucle"
    /\ archivo' = 0
    /\ atributos' = SinAtributos
    /\ resultado' = ResultadoInicial(0)
    /\ num_pagina' = 0
    /\ carpeta_temp' = 0
    /\ paginas_log' = <<>>
    /\ traza' = TrazaInicial
    /\ UNCHANGED <<cfg, llamada, previos, entrada, fs, carpetas_temp, fallos, pendientes,
                   resumen, estadisticas>>

\* After the for loop: generar_resumen_procesamiento, and the summary file
\* when guardar_metadata is set (an open that fails leaves procesar_lote
\* by an exception)
FinLote ==
    /\ pc = "lote_bucle"
    /\ indice > Len(pendientes)
    /\ \E ok \in BOOLEAN :
          /\ ~cfg.guardar_metadata => ok
          /\ C(~ok) <= Presupuesto
          /\ fallos' = fallos + C(~ok)
          /\ IF ~ok
             THEN /\ resumen' = [estado |-> "excepcion"]
                  /\ pc' = "lote_excepcion"
             ELSE /\ resumen' = GenerarResumen(resultados)
                  /\ pc' = "lote_fin"
    /\ UNCHANGED <<cfg, llamada, previos, entrada, fs, carpetas_temp, pendientes, indice,
                   resultados, estadisticas, vars_archivo>>

Next ==
    \/ ListarPendientes
    \/ IniciarArchivo
    \/ Validar
    \/ Backup
    \/ Analizar
    \/ Pagina
    \/ Limpiar
    \/ Disponer
    \/ Finally
    \/ Retorno
    \/ FinLote

Spec == Init /\ [][Next]_vars

SpecLote == InitLote /\ [][Next]_vars

\* procesar_lote is one thread that runs every statement it reaches: a step
\* that can be taken is taken.
SpecLoteJusto == InitLote /\ [][Next]_vars /\ WF_vars(Next)

(***************************************************************************)
(* Direct calls of the functions of FileManager, one call in each          *)
(* behaviour, on a small folder: the file to move, copy or delete, and     *)
(* the names taken at the destination.                                     *)
(***************************************************************************)

\* The destination asked for in the direct calls, and the files that may
\* already be there.
DestinoPedido == Ruta("output", <<"fac", 1, 1>>, 0)
Ocupantes == {Entrada(Ruta("output", <<"fac", 1, 1>>, n), <<2, n + 1>>) : n \in 0..1}

\* The folder before a direct call: the origin may be missing; the
\* destination is free, or taken by files of an earlier call, or by files
\* that were there before (up to every suffixed variant).
InitFunciones ==
    /\ cfg = ConfigDefecto
    /\ \E n \in {0, 1, LimiteContador, LimiteContador + 1},
          hay \in BOOLEAN, oc \in SUBSET Ocupantes :
          /\ n > 0 => oc = {}
          /\ previos = [c \in Carpetas |-> IF c = "output" THEN n ELSE 0]
          /\ fs = oc \cup (IF hay THEN {Entrada(RutaOriginal(1), <<1, 0>>)} ELSE {})
    /\ entrada = <<>>
    /\ carpetas_temp = {}
    /\ fallos = 0
    /\ pc = "funciones"
    /\ pendientes = <<>>
    /\ indice = 1
    /\ resultados = <<>>
    /\ resumen = [estado |-> "ninguno"]
    /\ estadisticas = [archivos_procesados |-> 0, paginas_procesadas |-> 0,
                       archivos_exitosos |-> 0, archivos_con_error |-> 0,
                       errores |-> <<>>]
    /\ archivo = 0
    /\ atributos = SinAtributos
    /\ resultado = ResultadoInicial(0)
    /\ num_pagina = 0
    /\ carpeta_temp = 0
    /\ paginas_log = <<>>
    /\ traza = TrazaInicial
    /\ llamada = SinLlamada

\* What a direct call leaves alone.
vars_proceso == <<cfg, previos, entrada, carpetas_temp, fallos, pendientes, indice,
                  resultados, resumen, estadisticas, archivo, atributos, resultado,
                  num_pagina, carpeta_temp, paginas_log, traza>>

\* file_manager.mover_archivo(origen, destino)
LlamarMover ==
    /\ pc = "funciones"
    /\ \E mkdir \in BOOLEAN, io \in SecuenciasIO :
          LET m == MoverArchivo(fs, previos, RutaOriginal(1), DestinoPedido, mkdir, io)
          IN  /\ fs' = m.fs
              /\ llamada' = [fn |-> "mover_archivo", antes |-> fs, mkdir |-> mkdir,
                             io |-> io, res |-> m.res, destino |-> m.destino,
                             intentos |-> m.intentos, esperas |-> m.esperas]
    /\ pc' = "hecho"
    /\ UNCHANGED vars_proceso

\* file_manager.copiar_archivo(origen, destino)
LlamarCopiar ==
    /\ pc = "funciones"
    /\ \E mkdir \in BOOLEAN, io \in SecuenciasIO :
          LET m == CopiarArchivo(fs, previos, RutaOriginal(1), DestinoPedido, mkdir, io)
          IN  /\ fs' = m.fs
              /\ llamada' = [fn |-> "copiar_archivo", antes |-> fs, mkdir |-> mkdir,
                             io |-> io, res |-> m.res, destino |-> m.destino,
                             intentos |-> m.intentos, esperas |-> m.esperas]
    /\ pc' = "hecho"
    /\ UNCHANGED vars_proceso

\* file_manager.eliminar_archivo(archivo)
LlamarEliminar ==
    /\ pc = "funciones"
    /\ \E io \in SecuenciasEliminar :
          LET e == EliminarArchivo(fs, previos, RutaOriginal(1), io)
          IN  /\ fs' = e.fs
              /\ llamada' = [fn |-> "eliminar_archivo", antes |-> fs, io |-> io,
                             ok |-> e.ok, via |-> e.via]
    /\ pc' = "hecho"
    /\ UNCHANGED vars_proceso

(***************************************************************************)
(* DataExtractor.  A rule applied to a text is given by what happens when  *)
(* it is applied: whether re.search matches or raises, what the validador  *)
(* says of the captured value, what the transformador does.  The value     *)
(* captured by rule i is <<"v", i>>, transformed <<"t", i>>; None is <<>>  *)
(* for a value and 0 for the name of a rule.                               *)
(***************************************************************************)
ReglasPosibles ==
    {[busca |-> "no", validador |-> "ninguno", transformador |-> "ninguno"],
     [busca |-> "raise", validador |-> "ninguno", transformador |-> "ninguno"]}
    \cup [busca : {"si"}, validador : {"ninguno", "acepta"},
          transformador : {"ninguno", "ok", "raise"}]
    \cup [busca : {"si"}, validador : {"rechaza", "raise"},
          transformador : {"ninguno"}]

Patrones == UNION {[1..n -> ReglasPosibles] : n \in 0..MaxReglas}

\* Variant of ExtraerDesde: a rule that raises ends the resolution.
RECURSIVE ExtraerDesdeAborta(_, _)
ExtraerDesdeAborta(patrones, i) ==
    IF i > Len(patrones)
    THEN [valor |-> <<>>, nombre |-> 0]
    ELSE LET r == patrones[i]
         IN  IF "raise" \in {r.busca, r.validador, r.transformador}
             THEN [valor |-> <<>>, nombre |-> 0]
             ELSE IF r.busca = "no" \/ r.validador = "rechaza"
             THEN ExtraerDesdeAborta(patrones, i + 1)
             ELSE [valor |-> IF r.transformador = "ok" THEN <<"t", i>> ELSE <<"v", i>>,
                   nombre |-> i]

\* for patron in patrones: of extraer_con_patron, from the i-th rule on
RECURSIVE ExtraerDesde(_, _)
ExtraerDesde(patrones, i) ==
    IF i > Len(patrones)
    THEN [valor |-> <<>>, nombre |-> 0]
    ELSE LET r == patrones[i]
         IN  IF r.busca = "raise" THEN ExtraerDesde(patrones, i + 1)
             ELSE IF r.busca = "no" THEN ExtraerDesde(patrones, i + 1)
             ELSE IF r.validador = "raise" THEN ExtraerDesde(patrones, i + 1)
             ELSE IF r.validador = "rechaza" THEN ExtraerDesde(patrones, i + 1)
             ELSE IF r.transformador = "raise" THEN ExtraerDesde(patrones, i + 1)
             ELSE [valor |-> IF r.transformador = "ok" THEN <<"t", i>> ELSE <<"v", i>>,
                   nombre |-> i]

\* DataExtractor.extraer_con_patron(texto, patrones)
ExtraerConPatron(patrones) == ExtraerDesde(patrones, 1)

\* The fields of patrones_adicionales, "otro" being a custom field, and what
\* the resolution of a field can come to: a value; a value that parsear_fecha
\* or parsear_monto cannot convert (they return None); nothing; an exception.
CamposAdicionales == <<"numero_factura", "fecha", "monto", "rut", "otro">>
Resoluciones(campo) ==
    IF campo \in {"fecha", "monto"}
    THEN {"valor", "no_convertible", "nada", "raise"}
    ELSE {"valor", "nada", "raise"}

ErrorCampo(campo, tipo) == [campo |-> campo, tipo |-> tipo]

\* DataExtractor.extraer_datos_completos, on what the resolution of each
\* field comes to: the fields that hold a value, and errores_extraccion.
ExtraerDatosCompletos(c, l, ad) ==
    LET principal(campo, r) ==
            IF r = "nada" THEN <<ErrorCampo(campo, "no_extraido")>>
            ELSE IF r = "raise" THEN <<ErrorCampo(campo, "excepcion")>>
            ELSE <<>>
        adicional(i) ==
            IF ad[CamposAdicionales[i]] = "raise"
            THEN <<ErrorCampo(CamposAdicionales[i], "excepcion")>>
            ELSE <<>>
    IN  [cliente |-> IF c = "valor" THEN 1 ELSE 0,
         local |-> IF l = "valor" THEN 1 ELSE 0,
         con_valor |-> {f \in DOMAIN ad : ad[f] = "valor"},
         errores_extraccion |->
             principal("cliente", c) \o principal("local", l)
             \o Aplanar([i \in 1..Len(CamposAdicionales) |-> adicional(i)])]

\* What monto_total of a record can be.
Montos == {"ninguno", "negativo", "cero", "positivo"}

\* DataExtractor.validar_extraccion
ValidarExtraccion(d) ==
    [es_valido |-> d.cliente # 0 /\ d.local # 0,
     campos_faltantes |-> (IF d.cliente = 0 THEN {"cliente"} ELSE {})
                          \cup (IF d.local = 0 THEN {"local"} ELSE {}),
     advertencias |-> IF d.monto \in {"ninguno", "cero"} THEN {"monto"} ELSE {}]

\* extraer_con_patron(texto, patrones)
LlamarExtraerConPatron ==
    /\ pc = "funciones"
    /\ \E patrones \in Patrones :
          llamada' = [fn |-> "extraer_con_patron", patrones |-> patrones,
                      res |-> ExtraerConPatron(patrones)]
    /\ pc' = "hecho"
    /\ UNCHANGED <<fs, vars_proceso>>

\* extraer_datos_completos(texto, pagina)
LlamarExtraerDatosCompletos ==
    /\ pc = "funciones"
    /\ \E c \in Resoluciones("cliente"), l \in Resoluciones("local"),
          ad \in [{CamposAdicionales[i] : i \in 1..Len(CamposAdicionales)}
                    -> {"valor", "no_convertible", "nada", "raise"}] :
          /\ \A f \in DOMAIN ad : ad[f] \in Resoluciones(f)
          /\ llamada' = [fn |-> "extraer_datos_completos", cliente |-> c, local |-> l,
                         adicionales |-> ad, datos |-> ExtraerDatosCompletos(c, l, ad)]
    /\ pc' = "hecho"
    /\ UNCHANGED <<fs, vars_proceso>>

\* The validation of the record of a page in procesar_archivo, and whether
\* the page is skipped
DecidirPagina ==
    /\ pc = "funciones"
    /\ \E d \in [cliente : Clientes, local : Locales, monto : Montos] :
          llamada' = [fn |-> "pagina", datos |-> d,
                      validacion |-> ValidarExtraccion(d),
                      omitida |-> PaginaOmitida(d)]
    /\ pc' = "hecho"
    /\ UNCHANGED <<fs, vars_proceso>>

(***************************************************************************)
(* File names as sequences of characters.                                  *)
(***************************************************************************)
\* FileManager.CARACTERES_INVALIDOS
CARACTERES_INVALIDOS ==
    {"<", ">", ":", "\"", "/", "\\", "|", "?", "*", "\n", "\r", "\t"}

\* The characters that str.split() and str.strip() take for white space,
\* among the characters of the names below.
EsEspacio(ch) == ch \in {" ", "\n", "\r", "\t"}

SinNombre == <<"s", "i", "n", "_", "n", "o", "m", "b", "r", "e">>

\* ' '.join(nombre.split()) followed by nombre.strip(): the words of s with
\* one space between two of them.
UnirPalabras(s) ==
    LET ultima == IF \A i \in 1..Len(s) : EsEspacio(s[i]) THEN 0
                  ELSE CHOOSE i \in 1..Len(s) :
                          /\ ~EsEspacio(s[i])
                          /\ \A j \in (i + 1)..Len(s) : EsEspacio(s[j])
        queda(x) == \/ ~EsEspacio(x[2])
                    \/ /\ x[1] > 1
                       /\ ~EsEspacio(s[x[1] - 1])
                       /\ x[1] < ultima
        elegidos == SelectSeq([i \in 1..Len(s) |-> <<i, s[i]>>], queda)
    IN  [k \in 1..Len(elegidos) |->
            IF EsEspacio(elegidos[k][2]) THEN " " ELSE elegidos[k][2]]

\* FileManager.limpiar_nombre_archivo(nombre), reemplazo = ''
LimpiarNombreArchivo(nombre) ==
    IF nombre = <<>> THEN SinNombre
    ELSE LET valido(ch) == ch \notin CARACTERES_INVALIDOS
             sin_invalidos == SelectSeq(nombre, valido)
             unido == UnirPalabras(sin_invalidos)
             corto == IF Len(unido) > LongitudMaxima
                      THEN SubSeq(unido, 1, LongitudMaxima)
                      ELSE unido
         IN  IF corto = <<>> THEN SinNombre ELSE corto

\* The names given to limpiar_nombre_archivo: a run of letters, none or about
\* LongitudMaxima of them, followed by a few characters of any kind.
Colas == UNION {[1..n -> {"a", " ", "<"}] : n \in 0..MaxCola}
Nombres ==
    {[i \in 1..n |-> "a"] \o cola :
        n \in {0} \cup ((LongitudMaxima - 2)..LongitudMaxima), cola \in Colas}

\* limpiar_nombre_archivo(nombre), and again on its result
LlamarLimpiarNombre ==
    /\ pc = "funciones"
    /\ \E nombre \in Nombres :
          LET limpio == LimpiarNombreArchivo(nombre)
          IN  llamada' = [fn |-> "limpiar_nombre_archivo", nombre |-> nombre,
                          limpio |-> limpio,
                          relimpio |-> LimpiarNombreArchivo(limpio)]
    /\ pc' = "hecho"
    /\ UNCHANGED <<fs, vars_proceso>>

\* FileManager.CARACTERES_INVALIDOS, in the order of the list
CaracteresEnOrden ==
    <<"<", ">", ":", "\"", "/", "\\", "|", "?", "*", "\n", "\r", "\t">>

\* nombre.replace(char, reemplazo), reemplazo being empty or one character
Reemplazar(s, char, reemplazo) ==
    IF reemplazo = <<>>
    THEN LET otro(ch) == ch # char IN SelectSeq(s, otro)
    ELSE [i \in 1..Len(s) |-> IF s[i] = char THEN reemplazo[1] ELSE s[i]]

\* for char in self.CARACTERES_INVALIDOS: nombre = nombre.replace(char,
\* reemplazo), from the k-th character of the list on
RECURSIVE ReemplazarInvalidos(_, _, _)
ReemplazarInvalidos(s, reemplazo, k) ==
    IF k > Len(CaracteresEnOrden) THEN s
    ELSE ReemplazarInvalidos(Reemplazar(s, CaracteresEnOrden[k], reemplazo),
                             reemplazo, k + 1)

\* FileManager.limpiar_nombre_archivo(nombre, reemplazo)
LimpiarNombreCon(nombre, reemplazo) ==
    IF nombre = <<>> THEN SinNombre
    ELSE LET unido == UnirPalabras(ReemplazarInvalidos(nombre, reemplazo, 1))
             corto == IF Len(unido) > LongitudMaxima
                      THEN SubSeq(unido, 1, LongitudMaxima)
                      ELSE unido
         IN  IF corto = <<>> THEN SinNombre ELSE corto

\* The values of reemplazo: the default, and one character of each kind.
Reemplazos == {<<>>, <<"_">>, <<" ">>, <<"<">>, <<"\t">>}

\* limpiar_nombre_archivo(nombre, reemplazo)
LlamarLimpiarNombreCon ==
    /\ pc = "funciones"
    /\ \E nombre \in Nombres, reemplazo \in Reemplazos :
          llamada' = [fn |-> "limpiar_nombre_archivo_con", nombre |-> nombre,
                      reemplazo |-> reemplazo,
                      limpio |-> LimpiarNombreCon(nombre, reemplazo)]
    /\ pc' = "hecho"
    /\ UNCHANGED <<fs, vars_proceso>>

(***************************************************************************)
(* Name templates.  A template is a sequence of pieces: a text, a named    *)
(* placeholder "{nombre}", a positional placeholder "{}" or "{0}", or a    *)
(* brace that is not closed.                                               *)
(***************************************************************************)
ExtensionPdf == <<".", "p", "d", "f">>
Separador == <<" ", "-", " ">>

Texto(t) == [t |-> "texto", texto |-> t, nombre |-> ""]
Campo(n) == [t |-> "campo", texto |-> <<>>, nombre |-> n]
Posicional == [t |-> "posicional", texto |-> <<>>, nombre |-> ""]
LlaveSuelta == [t |-> "llave", texto |-> <<>>, nombre |-> ""]

\* formato = "{local} - {cliente}"
FormatoDefecto == <<Campo("local"), Texto(Separador), Campo("cliente")>>

Piezas ==
    {Texto(Separador), Texto(<<"_">>), Texto(ExtensionPdf), Posicional, LlaveSuelta}
    \cup {Campo(n) : n \in {"cliente", "local", "factura", "fecha", "otro"}}

Plantillas == UNION {[1..n -> Piezas] : n \in 0..MaxPlantilla}

\* formato.format(**valores): the pieces are rendered from left to right, and
\* the first piece that cannot be rendered raises: KeyError for a name
\* that valores does not have, IndexError for a positional placeholder,
\* ValueError for a brace that is not closed.
Format(formato, valores) ==
    LET mala(i) == \/ formato[i].t \in {"posicional", "llave"}
                   \/ formato[i].t = "campo" /\ formato[i].nombre \notin DOMAIN valores
        malas == {i \in 1..Len(formato) : mala(i)}
        primera == CHOOSE i \in malas : \A j \in malas : i <= j
        pieza(i) == IF formato[i].t = "texto" THEN formato[i].texto
                    ELSE valores[formato[i].nombre]
    IN  IF malas = {}
        THEN [excepcion |-> "no",
              texto |-> Aplanar([i \in 1..Len(formato) |-> pieza(i)])]
        ELSE [excepcion |-> IF formato[primera].t = "campo" THEN "KeyError"
                            ELSE IF formato[primera].t = "posicional" THEN "IndexError"
                            ELSE "ValueError",
              texto |-> <<>>]

\* nombre.endswith(sufijo)
Termina(nombre, sufijo) ==
    /\ Len(nombre) >= Len(sufijo)
    /\ SubSeq(nombre, Len(nombre) - Len(sufijo) + 1, Len(nombre)) = sufijo

\* FileManager.generar_nombre_factura(cliente, local, formato=formato),
\* numero_factura and fecha not given: [res, excepcion, nombre]
GenerarNombreFactura(cliente, local, formato) ==
    LET cliente_limpio == LimpiarNombreArchivo(cliente)
        local_limpio == LimpiarNombreArchivo(local)
        valores == [cliente |-> cliente_limpio, local |-> local_limpio,
                    factura |-> <<>>, fecha |-> <<>>]
        f == Format(formato, valores)
        nombre == IF f.excepcion = "KeyError"
                  THEN local_limpio \o Separador \o cliente_limpio
                  ELSE f.texto
    IN  IF f.excepcion \in {"IndexError", "ValueError"}
        THEN [res |-> "raise", excepcion |-> f.excepcion, nombre |-> <<>>]
        ELSE [res |-> "ok", excepcion |-> "no",
              nombre |-> IF Termina(nombre, ExtensionPdf) THEN nombre
                         ELSE nombre \o ExtensionPdf]

\* generar_nombre_factura(cliente, local, formato=formato)
LlamarGenerarNombreFactura ==
    /\ pc = "funciones"
    /\ \E cliente \in {<<>>, <<"c">>, <<"c", "<">>}, local \in {<<"1">>},
          formato \in Plantillas :
          llamada' = [fn |-> "generar_nombre_factura", cliente |-> cliente,
                      local |-> local, formato |-> formato,
                      res |-> GenerarNombreFactura(cliente, local, formato)]
    /\ pc' = "hecho"
    /\ UNCHANGED <<fs, vars_proceso>>

\* validator.validar_archivo_pdf(filepath), on a file that is there or not
LlamarValidarArchivoPdf ==
    /\ pc = "funciones"
    /\ \E existe \in BOOLEAN, atr \in Atributos(Tamanos, 0..MaxPaginas) :
          /\ ~existe => atr = SinAtributos
          /\ llamada' = [fn |-> "validar_archivo_pdf", existe |-> existe, atr |-> atr,
                         res |-> ValidarArchivoPdf(existe, atr)]
    /\ pc' = "hecho"
    /\ UNCHANGED <<fs, vars_proceso>>

\* Variant of LimiteAlcanzado: the search gives up one candidate earlier.
LimiteAlcanzadoAntes(contador) == contador >= LimiteContador

\* if contador > 1000: raise ValueError
LimiteAlcanzado(contador) == contador > LimiteContador

\* _generar_nombre_unico(ruta), up to the while loop: the path itself when
\* it does not exist, contador = 1 otherwise
LlamarGenerarNombreUnico ==
    /\ pc = "funciones"
    /\ IF ~Existe(fs, previos, DestinoPedido)
       THEN /\ llamada' = [fn |-> "_generar_nombre_unico", contador |-> 0,
                           probados |-> 0, res |-> "ruta", ruta |-> DestinoPedido]
            /\ pc' = "hecho"
       ELSE /\ llamada' = [fn |-> "_generar_nombre_unico", contador |-> 1,
                           probados |-> 0, res |-> "bucle", ruta |-> DestinoPedido]
            /\ pc' = "nombre_unico"
    /\ UNCHANGED <<fs, vars_proceso>>

\* One iteration of the while loop of _generar_nombre_unico
IterarNombreUnico ==
    /\ pc = "nombre_unico"
    /\ LET nueva_ruta == Ruta(DestinoPedido.carpeta, DestinoPedido.stem,
                              llamada.contador)
       IN  IF ~Existe(fs, previos, nueva_ruta)
           THEN /\ llamada' = [llamada EXCEPT !.probados = @ + 1, !.res = "ruta",
                                              !.ruta = nueva_ruta]
                /\ pc' = "hecho"
           ELSE IF LimiteAlcanzado(llamada.contador + 1)
           THEN /\ llamada' = [llamada EXCEPT !.probados = @ + 1,
                                              !.contador = @ + 1, !.res = "error"]
                /\ pc' = "hecho"
           ELSE /\ llamada' = [llamada EXCEPT !.probados = @ + 1,
                                              !.contador = @ + 1]
                /\ pc' = "nombre_unico"
    /\ UNCHANGED <<fs, vars_proceso>>

NextFunciones ==
    \/ LlamarMover
    \/ LlamarCopiar
    \/ LlamarEliminar
    \/ LlamarExtraerConPatron
    \/ LlamarExtraerDatosCompletos
    \/ DecidirPagina
    \/ LlamarLimpiarNombre
    \/ LlamarLimpiarNombreCon
    \/ LlamarGenerarNombreFactura
    \/ LlamarValidarArchivoPdf
    \/ LlamarGenerarNombreUnico
    \/ IterarNombreUnico

SpecFunciones == InitFunciones /\ [][NextFunciones]_vars

(***************************************************************************)
(* Claims.  "The call has returned" is pc = "retorno": the finally block   *)
(* has run and resultado is what procesar_archivo hands to procesar_lote.  *)
(***************************************************************************)

\* The original of f lies whole in the error folder.
EnErrores(f) ==
    \E x \in fs : x.carpeta = "errors" /\ x.stem = StemOriginal(f)
                  /\ x.contenido = <<f, 0>>

\* The original of f is still in the input folder.
EnInput(f) == \E x \in fs : x.carpeta = "input" /\ x.stem = StemOriginal(f)

\* An output document holding page p of f lies in the success folder.
EnSalida(f, p) == \E x \in fs : x.carpeta = "output" /\ x.contenido = <<f, p>>

\* The page loop of the running call has ended.
BucleTerminado == traza.rmtree # "no"

\* How many entries of q are about page p, of one of the given kinds.
NumErrores(q, tipos, p) ==
    Cardinality({i \in 1..Len(q) : q[i].tipo \in tipos /\ q[i].pagina = p})

\* No filesystem operation has failed and the folders were empty at the start.
SinFallos == fallos = 0 /\ previos = Vacias

\* C1 (the claim as stated, and only for calls in which no filesystem
\* operation failed and no name was taken): when procesar_archivo returns,
\* the original is whole in the error folder if and only if no page of it
\* produced a routed output document.
C1_OriginalEnErroresSiiSinPaginas ==
    (pc = "retorno" /\ SinFallos) =>
        (EnErrores(archivo) <=> resultado.paginas_procesadas = 0)

\* C2: once the page loop has ended every page of the file has been handled;
\* every page with text, a valid record, a split and a move that succeed has
\* its output document in the success folder, whatever happened to the other
\* pages; and every page with text but no valid record has exactly one
\* page-level entry in errores.
C2_PaginasIndependientes ==
    BucleTerminado =>
        /\ Len(paginas_log) = atributos.paginas
        /\ \A p \in 1..Len(paginas_log) :
              LET g == paginas_log[p]
              IN  /\ (g.texto /\ EsValido(g.cliente, g.local)
                      /\ g.split = "true" /\ g.mover = "true")
                        => EnSalida(archivo, p)
                  /\ (g.texto /\ ~EsValido(g.cliente, g.local))
                        => NumErrores(resultado.errores, {"pagina"}, p) = 1

\* C2 witness: the loop has ended, one page had text but no valid record
\* and a sibling page has its output document in the success folder.
C2_Testigo ==
    /\ BucleTerminado
    /\ \E p, q \in 1..Len(paginas_log) :
          /\ paginas_log[p].texto
          /\ ~EsValido(paginas_log[p].cliente, paginas_log[p].local)
          /\ paginas_log[q].mover = "true"
          /\ EnSalida(archivo, q)

\* C3: procesar_lote hands the pending files to procesar_archivo in the
\* order of the list, each exactly once, and keeps one result per file
\* whatever the way a file fails: the results are those of the first files
\* of the list, in order; the file being processed is the next of the list;
\* and when the loop is over there are as many results as pending files.
C3_LoteEnOrden ==
    /\ \A i, j \in 1..Len(pendientes) : i # j => pendientes[i] # pendientes[j]
    /\ Len(resultados) <= Len(pendientes)
    /\ \A i \in 1..Len(resultados) : resultados[i].archivo = pendientes[i]
    /\ archivo # 0 => (Len(resultados) = indice - 1 /\ archivo = pendientes[indice])
    /\ pc \in {"lote_fin", "lote_excepcion"} => Len(resultados) = Len(pendientes)

\* C3 witness: a batch has ended in which a file that failed was followed
\* by another file, and both have their result.
C3_Testigo ==
    /\ pc = "lote_fin"
    /\ Len(resultados) >= 2
    /\ ~resultados[1].exitoso
    /\ resultados[2].archivo = pendientes[2]

\* A move of the original to the error folder would meet nothing in its
\* way: the original is in the input folder, no operation has failed, no
\* name is taken, and the call has not tried the move.
MovimientoPosible ==
    EnInput(archivo) /\ SinFallos /\ traza.mover_original = "no"

\* C4 (the claim as stated): when an exception reached the except block of
\* procesar_archivo, the result has exitoso false, the file is counted in
\* archivos_con_error, and the original is in the error folder whenever
\* the move could succeed.
C4_ExcepcionMueveAErrores ==
    (pc = "retorno" /\ traza.excepcion # "no") =>
        /\ ~resultado.exitoso
        /\ estadisticas.archivos_con_error >= 1
        /\ MovimientoPosible => EnErrores(archivo)

\* The original of f lies in originales_procesados.
EnProcesados(f) ==
    \E x \in fs : x.carpeta = "procesados" /\ x.contenido = <<f, 0>>

\* C5 (the claim as stated): when at least one page of the file was routed,
\* the call returns exitoso true and the original has left the input folder,
\* deleted or moved to originales_procesados.
C5_ExitoDisponeOriginal ==
    (pc = "retorno" /\ resultado.paginas_procesadas > 0) =>
        /\ resultado.exitoso
        /\ ~EnInput(archivo)
        /\ traza.eliminar \in {"papelera", "unlink"} \/ EnProcesados(archivo)

\* The validator refuses the file: its size is outside the bounds, the PDF
\* library cannot read it, or it has no page.
VeredictoInvalido(atr) ==
    atr.tam \in {"pequeno", "grande"} \/ ~atr.legible \/ atr.paginas = 0

\* The call has returned for a file that the validator refuses, with
\* validar_antes set.
C6_Rechazado ==
    pc = "retorno" /\ cfg.validar_antes /\ VeredictoInvalido(atributos)

\* Nothing but the move of the original was done for the file: no backup,
\* no temporary folder, no page, no output document, no sidecar; the result
\* begins with the validator's errors and has exitoso false.
C6_NadaMas ==
    LET v == ValidarArchivoPdf(TRUE, atributos)
    IN  /\ traza.rechazado
        /\ traza.backup = "no"
        /\ carpeta_temp = 0
        /\ paginas_log = <<>>
        /\ resultado.paginas_procesadas = 0
        /\ resultado.archivos_generados = <<>>
        /\ \A x \in fs : x.carpeta \in {"backup", "temp", "output", "metadata"}
                            => x.contenido[1] # archivo
        /\ ~resultado.exitoso
        /\ Len(resultado.errores) >= Len(v.errores)
        /\ SubSeq(resultado.errores, 1, Len(v.errores)) = v.errores
        /\ v.errores # <<>>

C7_BackupFallidoSoloAdvierte ==
    (traza.backup \in {"none", "raise"} /\ fallos = 0) =>
        /\ NumErrores(resultado.advertencias, {"sin_backup"}, 0) = 1
        /\ traza.excepcion # "backup"

Contadores(est) ==
    <<est.archivos_procesados, est.archivos_exitosos, est.archivos_con_error,
      est.paginas_procesadas>>

\* C9: every call of procesar_archivo updates estadisticas exactly once, as
\* its last step, on every way out: the counters change only in the step
\* that returns, after which resultado is the one returned; that step adds
\* one to archivos_procesados, one to exactly one of archivos_exitosos and
\* archivos_con_error according to exitoso, and paginas_procesadas of the
\* result to the page counter; and every call that has returned has been
\* counted.
C9_EstadisticasUnaVez ==
    /\ [](estadisticas.archivos_procesados
            = Len(resultados) + (IF pc = "retorno" THEN 1 ELSE 0))
    /\ [][ IF pc' = "retorno" /\ pc # "retorno"
           THEN /\ resultado' = resultado
                /\ Contadores(estadisticas') =
                     <<estadisticas.archivos_procesados + 1,
                       estadisticas.archivos_exitosos
                          + (IF resultado.exitoso THEN 1 ELSE 0),
                       estadisticas.archivos_con_error
                          + (IF resultado.exitoso THEN 0 ELSE 1),
                       estadisticas.paginas_procesadas
                          + resultado.paginas_procesadas>>
           ELSE estadisticas' = estadisticas ]_vars

\* C9 witness: a call that ended by an exception after it had routed a page
\* has returned, counted once, as failed, with its page.
C9_Testigo ==
    /\ pc = "retorno"
    /\ traza.excepcion # "no"
    /\ resultado.paginas_procesadas > 0
    /\ Contadores(estadisticas) = <<1, 0, 1, resultado.paginas_procesadas>>

\* C10: the successful and the failed files add up to the files processed,
\* in the accumulator (archivos_procesados) and in the summary
\* (total_archivos, the number of results of the batch).
C10_ExitososMasErrores ==
    /\ estadisticas.archivos_exitosos + estadisticas.archivos_con_error
          = estadisticas.archivos_procesados
    /\ resumen.estado = "resumen" =>
          /\ resumen.archivos_exitosos + resumen.archivos_con_error
                = resumen.total_archivos
          /\ resumen.total_archivos = Len(pendientes)
          /\ resumen.archivos_exitosos = estadisticas.archivos_exitosos
          /\ resumen.archivos_con_error = estadisticas.archivos_con_error

\* C10 witness: the summary of a batch with a successful and a failed file.
C10_Testigo ==
    /\ pc = "lote_fin"
    /\ resumen.estado = "resumen"
    /\ resumen.archivos_exitosos >= 1
    /\ resumen.archivos_con_error >= 1

\* The path procesar_archivo reports for the page it routed under the given
\* fields: archivo_final, the output folder and the generated name.
RutaInformada(g) == Ruta("output", <<"fac", g.local, g.cliente>>, 0)

\* The pages of the running call that were routed.
Enrutadas == {p \in 1..Len(paginas_log) : paginas_log[p].mover = "true"}

\* C11 (the claim as stated, and only for calls in which no filesystem
\* operation failed and no name was taken at the start): the paths in
\* archivos_generados are distinct, and the path reported for a routed page
\* is the path at which the document of that page lies.
C11_RutaInformadaEsLaEscrita ==
    (BucleTerminado /\ SinFallos) =>
        /\ \A i, j \in 1..Len(resultado.archivos_generados) :
              i # j => resultado.archivos_generados[i] # resultado.archivos_generados[j]
        /\ \A p \in Enrutadas :
              /\ Existe(fs, previos, RutaInformada(paginas_log[p]))
              /\ Contenido(fs, RutaInformada(paginas_log[p])) = <<archivo, p>>

\* The sidecar written for the page routed under the given fields.
RutaSidecar(g) == Ruta("metadata", <<"meta", g.local, g.cliente>>, 0)

\* C12 (the claim as stated): with guardar_metadata set and no operation
\* failing, when the page loop has ended every routed page has its own
\* sidecar in the metadata folder.
C12_UnSidecarPorDocumento ==
    (BucleTerminado /\ cfg.guardar_metadata /\ SinFallos) =>
        \A p \in Enrutadas :
            \E x \in fs : x.carpeta = "metadata" /\ x.contenido = <<archivo, p>>

\* The page p of the running call was skipped for want of a valid record:
\* one page-level error, no split, no output document.
OmitidaPorDatos(p) ==
    /\ NumErrores(resultado.errores, {"pagina"}, p) = 1
    /\ paginas_log[p].split = "no"
    /\ ~EnSalida(archivo, p)

\* C17 (the claim as stated): a page with text whose record has exactly one
\* of cliente and local is not skipped for missing fields.
C17_UnCampoBasta ==
    BucleTerminado =>
        \A p \in 1..Len(paginas_log) :
            LET g == paginas_log[p]
            IN  (g.texto /\ (g.cliente = 0) # (g.local = 0)) => ~OmitidaPorDatos(p)

\* C17 (amended): a page with text is skipped for want of a valid record
\* exactly when cliente or local is absent; in particular a record with
\* exactly one of the two is invalid and its page is skipped.
C17_HacenFaltaLosDos ==
    BucleTerminado =>
        \A p \in 1..Len(paginas_log) :
            LET g == paginas_log[p]
            IN  g.texto => (OmitidaPorDatos(p) <=> (g.cliente = 0 \/ g.local = 0))

\* C17 witness: a page with a cliente and no local was skipped, and a page
\* of the same file with both fields was routed.
C17_Testigo ==
    /\ BucleTerminado
    /\ \E p, q \in 1..Len(paginas_log) :
          /\ paginas_log[p].texto
          /\ paginas_log[p].cliente # 0 /\ paginas_log[p].local = 0
          /\ OmitidaPorDatos(p)
          /\ q \in Enrutadas

\* The last direct call was a move or a copy.
MovioOCopio == llamada.fn \in {"mover_archivo", "copiar_archivo"}

\* C13: a move or a copy (sobrescribir = False) never replaces or alters a
\* file: when it succeeds the name it wrote to was absent from the
\* destination folder at the time of the call and holds the content of the
\* origin; every file there was before the call is still there with its
\* content (but the origin of a move that succeeded); a call that did not
\* succeed leaves every file as it was.
C13_NoSobrescribe ==
    MovioOCopio =>
        LET origen == Entrada(RutaOriginal(1), <<1, 0>>)
        IN  IF llamada.res = "true"
            THEN /\ ~Existe(llamada.antes, previos, llamada.destino)
                 /\ llamada.destino.carpeta = DestinoPedido.carpeta
                 /\ llamada.destino.stem = DestinoPedido.stem
                 /\ fs = (IF llamada.fn = "mover_archivo"
                          THEN llamada.antes \ {origen} ELSE llamada.antes)
                         \cup {Entrada(llamada.destino, <<1, 0>>)}
                 /\ \A x, y \in fs :
                       (x.carpeta = y.carpeta /\ x.stem = y.stem /\ x.n = y.n) => x = y
            ELSE fs = llamada.antes

\* C13 witness: a move to a destination that was taken succeeded, under a
\* name other than the one asked for.
C13_Testigo ==
    /\ llamada.fn = "mover_archivo"
    /\ llamada.res = "true"
    /\ Existe(llamada.antes, previos, DestinoPedido)
    /\ llamada.destino # DestinoPedido
    /\ \E x \in fs : x.carpeta = "output" /\ x.n = 0 /\ x.contenido = <<2, 1>>

\* Every attempt of the sequence met a lock error.
TodoBloqueado(io) == \A i \in 1..max_reintentos : io[i] = "lock"

\* The first attempt of the sequence that met something other than a lock
\* error.
PrimeroSinBloqueo(io) ==
    CHOOSE k \in 1..max_reintentos :
        io[k] # "lock" /\ \A j \in 1..(k - 1) : io[j] = "lock"

\* C14: a move or a copy that reaches its retry loop makes at most
\* max_reintentos attempts and waits once between consecutive attempts;
\* when every attempt meets a lock error it makes max_reintentos attempts,
\* waits max_reintentos - 1 times and returns False; otherwise it stops at
\* the first attempt that meets something else, True when that attempt
\* succeeds and False, with no further attempt, when it meets another error.
C14_ReintentosAcotados ==
    (MovioOCopio /\ llamada.intentos > 0) =>
        /\ llamada.intentos <= max_reintentos
        /\ llamada.esperas = llamada.intentos - 1
        /\ IF TodoBloqueado(llamada.io)
           THEN llamada.intentos = max_reintentos /\ llamada.res = "false"
           ELSE LET k == PrimeroSinBloqueo(llamada.io)
                IN  /\ llamada.intentos = k
                    /\ llamada.res = (IF llamada.io[k] = "ok" THEN "true" ELSE "false")

\* C14 witness: a copy met a lock error at every attempt: it made
\* max_reintentos attempts with a wait between them and returned False.
C14_Testigo ==
    /\ llamada.fn = "copiar_archivo"
    /\ TodoBloqueado(llamada.io)
    /\ llamada.intentos = max_reintentos
    /\ llamada.esperas = max_reintentos - 1
    /\ llamada.res = "false"

\* C15 (the claim as stated): when the first attempt of eliminar_archivo
\* on a file that exists finds the trash unavailable, the file is unlinked:
\* the call returns True and the file is gone; and the file is unlinked
\* only when the trash did not take it.
C15_SinPapeleraElimina ==
    (llamada.fn = "eliminar_archivo" /\ Existe(llamada.antes, previos, RutaOriginal(1))) =>
        /\ llamada.io[1] \in {"unlink", "sin_papelera"} =>
              /\ llamada.ok
              /\ llamada.via = "unlink"
              /\ ~Existe(fs, previos, RutaOriginal(1))
        /\ llamada.via = "unlink" => llamada.io[1] # "papelera"

\* C16: a page whose record fails the semantic validation, a required field
\* missing or the amount negative, is skipped.
C16_FalloSemanticoOmitePagina ==
    llamada.fn = "pagina" =>
        ((llamada.datos.cliente = 0 \/ llamada.datos.local = 0
            \/ llamada.datos.monto = "negativo") => llamada.omitida)

\* C18: extraer_datos_completos leaves an entry in errores_extraccion for
\* every field that does not resolve or whose conversion fails: cliente,
\* local and each additional field.
Resolucion(campo) ==
    IF campo = "cliente" THEN llamada.cliente
    ELSE IF campo = "local" THEN llamada.local
    ELSE llamada.adicionales[campo]

C18_ErrorPorCadaCampoSinResolver ==
    llamada.fn = "extraer_datos_completos" =>
        \A campo \in {"cliente", "local"} \cup DOMAIN llamada.adicionales :
            Resolucion(campo) # "valor" =>
                \E i \in 1..Len(llamada.datos.errores_extraccion) :
                    llamada.datos.errores_extraccion[i].campo = campo

\* C19: extraer_con_patron returns the value and the name of the first rule,
\* in the order of declaration, whose pattern matches and whose validator
\* accepts, never a later one; a rule that raises is skipped; the result is
\* (None, None) when no rule is accepted.
ReglaAceptada(r) ==
    /\ r.busca = "si"
    /\ r.validador \in {"ninguno", "acepta"}
    /\ r.transformador # "raise"

Aceptadas(patrones) == {i \in 1..Len(patrones) : ReglaAceptada(patrones[i])}

C19_PrimeraReglaAceptada ==
    llamada.fn = "extraer_con_patron" =>
        LET A == Aceptadas(llamada.patrones)
        IN  IF A = {}
            THEN llamada.res = [valor |-> <<>>, nombre |-> 0]
            ELSE /\ llamada.res.nombre \in A
                 /\ \A j \in A : llamada.res.nombre <= j
                 /\ llamada.res.valor \in {<<"v", llamada.res.nombre>>,
                                           <<"t", llamada.res.nombre>>}

\* A rule raised, a later rule was accepted and is the one returned, and a
\* rule after it would have been accepted too.
C19_Testigo ==
    /\ llamada.fn = "extraer_con_patron"
    /\ Len(llamada.patrones) = 3
    /\ "raise" \in {llamada.patrones[1].busca, llamada.patrones[1].validador,
                    llamada.patrones[1].transformador}
    /\ ReglaAceptada(llamada.patrones[2])
    /\ ReglaAceptada(llamada.patrones[3])
    /\ llamada.res.nombre = 2

\* C20: limpiar_nombre_archivo is idempotent: sanitizing a sanitized name
\* gives the same name, for every name, the ones longer than 200 characters
\* included.
C20_LimpiarIdempotente ==
    llamada.fn = "limpiar_nombre_archivo" => llamada.relimpio = llamada.limpio

\* C21: for every name and every value of reemplazo, the name that
\* limpiar_nombre_archivo returns holds none of the forbidden characters and
\* has at most 200 characters.
C21_SinInvalidosYCorto ==
    llamada.fn = "limpiar_nombre_archivo_con" =>
        /\ \A i \in 1..Len(llamada.limpio) : llamada.limpio[i] \notin CARACTERES_INVALIDOS
        /\ Len(llamada.limpio) <= LongitudMaxima


\* The template cannot be rendered: it has a placeholder of an unknown name,
\* a positional placeholder or a brace that is not closed.
NoRenderizable(formato) ==
    \E i \in 1..Len(formato) :
        \/ formato[i].t \in {"posicional", "llave"}
        \/ formato[i].t = "campo" /\ formato[i].nombre = "otro"

\* C22: generar_nombre_factura always returns a name ending in .pdf, and
\* for a template it cannot render it returns the default name
\* "<local> - <cliente>.pdf" instead of failing.
C22_SiempreNombrePdf ==
    llamada.fn = "generar_nombre_factura" =>
        /\ llamada.res.res = "ok"
        /\ Termina(llamada.res.nombre, ExtensionPdf)
        /\ NoRenderizable(llamada.formato) =>
              llamada.res.nombre =
                  LimpiarNombreArchivo(llamada.local) \o Separador
                  \o LimpiarNombreArchivo(llamada.cliente) \o ExtensionPdf

\* C23: every call of validar_archivo_pdf appends its verdict to
\* validation_history, whatever the verdict: also a call on a missing file
\* or on a file that the PDF library cannot parse.
C23_CadaLlamadaEnHistorial ==
    llamada.fn = "validar_archivo_pdf" => llamada.res.historial

\* C24: procesar_lote terminates for any list of pending files and any
\* pattern of I/O failures: every file that procesar_lote starts reaches its
\* terminal state, the return of procesar_archivo, and the batch eventually
\* returns its summary.
C24_LoteTerminaConResumen ==
    /\ \A f \in Archivos : (archivo = f) ~> (pc = "retorno" /\ archivo = f)
    /\ <>(pc = "lote_fin")

\* The suffixes 1..1000 that are free for the destination asked for.
SufijosLibres ==
    {k \in 1..LimiteContador :
        ~Existe(fs, previos, Ruta(DestinoPedido.carpeta, DestinoPedido.stem, k))}

\* What _generar_nombre_unico has returned is what the claim says.
C25_Resultado ==
    IF ~Existe(fs, previos, DestinoPedido)
    THEN llamada.res = "ruta" /\ llamada.ruta = DestinoPedido /\ llamada.probados = 0
    ELSE IF SufijosLibres = {}
    THEN llamada.res = "error" /\ llamada.probados = LimiteContador
    ELSE /\ llamada.res = "ruta"
         /\ llamada.ruta.carpeta = DestinoPedido.carpeta
         /\ llamada.ruta.stem = DestinoPedido.stem
         /\ llamada.ruta.n \in SufijosLibres
         /\ \A j \in SufijosLibres : llamada.ruta.n <= j
         /\ llamada.probados = llamada.ruta.n

\* C25: _generar_nombre_unico returns the path itself when it is free,
\* otherwise stem_N for the smallest N in 1..1000 that is free; when stem_1
\* to stem_1000 are all taken it fails after trying exactly 1000 candidates;
\* it never loops forever: every iteration tries one more candidate and no
\* call tries more than 1000.  The result is the one the moves and copies
\* of the model use.
C25_NombreUnicoAcotado ==
    /\ []((llamada.fn = "_generar_nombre_unico" /\ pc = "hecho") =>
            /\ C25_Resultado
            /\ GenerarNombreUnico(fs, previos, DestinoPedido)
                 = [error |-> llamada.res = "error", ruta |-> llamada.ruta])
    /\ [](llamada.fn = "_generar_nombre_unico" => llamada.probados <= LimiteContador)
    /\ [][pc = "nombre_unico" => llamada'.probados = llamada.probados + 1]_vars

\* C25 witness: stem and stem_1 to stem_999 were taken, and the call
\* returned stem_1000 after trying 1000 candidates.
C25_Testigo ==
    /\ llamada.fn = "_generar_nombre_unico"
    /\ pc = "hecho"
    /\ llamada.res = "ruta"
    /\ llamada.ruta.n = LimiteContador
    /\ llamada.probados = LimiteContador

\* C26: when procesar_archivo returns, exitoso is true if and only if at
\* least one output document was generated for the file, on every way out.
C26_ExitosoSiiGenerados ==
    pc = "retorno" =>
        /\ resultado.exitoso <=> resultado.paginas_procesadas > 0
        /\ resultado.paginas_procesadas > 0 <=> resultado.archivos_generados # <<>>

\* C27: with crear_backup set, procesar_archivo deletes the original (by
\* the trash or by unlink) only when a backup of it was created earlier in
\* the call and is in the backup folder.
C27_EliminaSoloConBackup ==
    (cfg.crear_backup /\ traza.eliminar \in {"papelera", "unlink"}) =>
        /\ traza.backup = "ruta"
        /\ \E x \in fs : x.carpeta = "backup" /\ x.contenido = <<archivo, 0>>

\* C28 (the claim as stated, for files with pages and calls in which no
\* operation failed): every result with exitoso false carries at least one
\* entry in errores, also that of a file all of whose pages yield no text.
C28_FallidoConError ==
    (pc = "retorno" /\ ~resultado.exitoso /\ atributos.paginas > 0 /\ fallos = 0) =>
        resultado.errores # <<>>

\* C29: validar_archivo_pdf returns es_valido false if and only if its
\* errores list is not empty: every check that records an error makes the
\* verdict invalid, and warnings never do.
C29_InvalidoSiiErrores ==
    llamada.fn = "validar_archivo_pdf" =>
        (~llamada.res.es_valido <=> llamada.res.errores # <<>>)

\* C30: every document of a page that procesar_archivo hands out lies in
\* the success folder, under the name made of a local and a cliente that
\* are both there, and every routed page has a record with both; the only
\* other files that hold a page are the temporary split in the temp folder
\* and the sidecar in the metadata folder; the error folder holds nothing
\* but whole originals, under their own name.
C30_DocumentosSoloEnSalida ==
    /\ \A x \in fs :
          x.contenido[2] # 0 =>
              \/ x.carpeta = "temp" /\ x.stem[1] = "tmp"
              \/ x.carpeta = "metadata" /\ x.stem[1] = "meta"
              \/ /\ x.carpeta = "output"
                 /\ x.stem[1] = "fac"
                 /\ EsValido(x.stem[3], x.stem[2])
    /\ \A x \in fs :
          x.carpeta = "errors" =>
              x.contenido[2] = 0 /\ x.stem = StemOriginal(x.contenido[1])
    /\ \A p \in Enrutadas :
          /\ paginas_log[p].cliente # 0 /\ paginas_log[p].local # 0
          /\ EnSalida(archivo, p)

\* C30 witness: a batch has ended in which the page of one file was routed
\* to the success folder and another file lies whole in the error folder.
C30_Testigo ==
    /\ pc = "lote_fin"
    /\ \E f, g \in Archivos :
          /\ f # g
          /\ EnSalida(f, 1)
          /\ EnErrores(g)

====
